---- MODULE Spec2Model ----
(***************************************************************************)
(* Model of the Pesto host runtime (src/src/main.rs, fn main): tool        *)
(* provisioning, API bridge, entry-script check, analyzer/formatter pass,  *)
(* entry-script evaluation and the per-frame update/render loop.           *)
(*                                                                         *)
(* Every `.unwrap()` of the source that can fail is a panic: the process   *)
(* aborts, modelled by pc = "panic", from which no step is possible.       *)
(***************************************************************************)
EXTENDS Integers, Sequences, FiniteSets, TLC

\* ------------------------------------------------------------------ bounds
MaxEntries == 2     \* directory entries below the root that WalkDir yields
MaxFrames  == 3     \* frames of the main loop that are explored

\* ------------------------------------------------------- analyzer output
\* Text is a sequence of lines.  A line is a piece of ordinary text `text`
\* that may be followed by one occurrence of the summary pattern
\*   (\d+) (warning|warnings) / (\d+) (error|errors)
\* whose two digit runs are kept as sequences of digits.
T(s) == [text |-> s, sum |-> <<>>]
S(s, w, e) == [text |-> s, sum |-> <<[w |-> w, e |-> e]>>]
Lit(s) == <<T(s)>>

U32MaxDigits == <<4, 2, 9, 4, 9, 6, 7, 2, 9, 5>>

RECURSIVE StripZeros(_)
StripZeros(ds) ==
    IF Len(ds) > 1 /\ Head(ds) = 0 THEN StripZeros(Tail(ds)) ELSE ds

RECURSIVE LexLeq(_, _)
\* a <= b for digit sequences of equal length
LexLeq(a, b) ==
    IF a = <<>> THEN TRUE
    ELSE IF Head(a) # Head(b) THEN Head(a) < Head(b)
    ELSE LexLeq(Tail(a), Tail(b))

\* str::parse::<u32>: Ok(value) unless the value does not fit in 32 bits.
\* Only the sign of the value is used by the caller, so Ok carries `pos`.
ParseU32(ds) ==
    LET n == StripZeros(ds)
        fits == \/ Len(n) < Len(U32MaxDigits)
                \/ Len(n) = Len(U32MaxDigits) /\ LexLeq(n, U32MaxDigits)
    IN  [ok |-> fits, pos |-> \E i \in 1..Len(ds) : ds[i] # 0]

\* String::from_utf8_lossy: bytes that are not UTF-8 become U+FFFD.
FromUtf8Lossy(bytes) ==
    [i \in 1..Len(bytes) |->
        IF bytes[i].text = "<FF>" THEN [bytes[i] EXCEPT !.text = "<U+FFFD>"]
        ELSE bytes[i]]

RECURSIVE Captures(_)
\* Regex::captures: the leftmost occurrence of the pattern, if any.
Captures(text) ==
    IF text = <<>> THEN <<>>
    ELSE IF Head(text).sum # <<>> THEN Head(text).sum
    ELSE Captures(Tail(text))

\* The analyzer outputs (as bytes) that are explored.
AnalyzerOutputs ==
    { <<>>,
      <<T("Checking main.lua OK")>>,
      <<T("Total: 3 warnings, 0 errors")>>,
      <<T("Checking main.lua OK"), S("Total: ", <<0>>, <<0>>)>>,
      <<T("main.lua:1:7: unused variable x"), S("Total: ", <<1>>, <<0>>)>>,
      <<T("main.lua:2:1: expected expression"), S("Total: ", <<0>>, <<1>>)>>,
      <<T("<FF>.lua:1:1: unused variable y"), S("Total: ", <<2>>, <<1>>)>>,
      <<S("main.lua:1:1: setting undefined field ", <<0>>, <<0>>),
        S("Total: ", <<1>>, <<0>>)>>,
      <<S("Total: ", <<0, 0>>, <<0, 7>>)>>,
      <<S("Total: ", <<4, 2, 9, 4, 9, 6, 7, 2, 9, 5>>, <<0>>)>>,
      <<S("Total: ", <<4, 2, 9, 4, 9, 6, 7, 2, 9, 6>>, <<0>>)>> }

\* ------------------------------------------------------ script directory
\* What WalkDir::new(directory) yields, in order: the root, then the entries
\* below it.  ok = FALSE is an Err item of the iterator.
Root     == [name |-> ".", ok |-> TRUE, isFile |-> FALSE, ext |-> "none",
             readable |-> FALSE]
MainFile == [name |-> "main.lua", ok |-> TRUE, isFile |-> TRUE, ext |-> "lua",
             readable |-> TRUE]
MainDir  == [name |-> "main.lua", ok |-> TRUE, isFile |-> FALSE, ext |-> "lua",
             readable |-> FALSE]
LuaFile  == [name |-> "util.lua", ok |-> TRUE, isFile |-> TRUE, ext |-> "lua",
             readable |-> TRUE]
NoExt    == [name |-> "Makefile", ok |-> TRUE, isFile |-> TRUE, ext |-> "none",
             readable |-> TRUE]
TxtFile  == [name |-> "notes.txt", ok |-> TRUE, isFile |-> TRUE, ext |-> "txt",
             readable |-> TRUE]
SubDir   == [name |-> "lib", ok |-> TRUE, isFile |-> FALSE, ext |-> "none",
             readable |-> FALSE]
ErrEntry == [name |-> "locked", ok |-> FALSE, isFile |-> FALSE, ext |-> "none",
             readable |-> FALSE]

EntryKinds == {MainFile, MainDir, LuaFile, NoExt, TxtFile, SubDir, ErrEntry}

\* Directories: the root followed by up to MaxEntries entries with distinct
\* names, in any order.
Directories ==
    { <<Root>> \o s : s \in
        { q \in UNION { [1..n -> EntryKinds] : n \in 0..MaxEntries } :
            \A i, j \in DOMAIN q : i # j => q[i].name # q[j].name } }

\* Path::exists on <directory>/main.lua
Exists(dir, name) == \E i \in DOMAIN dir : dir[i].ok /\ dir[i].name = name

\* fs::read_to_string on <directory>/main.lua
Readable(dir, name) ==
    \E i \in DOMAIN dir : dir[i].ok /\ dir[i].name = name /\ dir[i].readable

\* ------------------------------------------------- arguments and paths
\* An argument or path component: its text, whether it is an absolute path
\* and whether it is valid Unicode.
MaxArgs == 2

Prog == [text |-> "resto.exe", abs |-> FALSE, utf |-> TRUE]
Game == [text |-> "game", abs |-> FALSE, utf |-> TRUE]
AbsGame == [text |-> "D:/games/pong", abs |-> TRUE, utf |-> TRUE]
BadArg == [text |-> "<invalid>", abs |-> FALSE, utf |-> FALSE]
Dot == [text |-> ".", abs |-> FALSE, utf |-> TRUE]
QuestionLua == [text |-> "?.lua", abs |-> FALSE, utf |-> TRUE]
NoDirectory == [text |-> "", abs |-> FALSE, utf |-> TRUE]

ArgTexts == {Prog, Game, AbsGame, BadArg}

\* The vector holds the program name first when the launcher passes one.
ArgVectors ==
    UNION { [1..n -> ArgTexts] : n \in 0..(MaxArgs + 1) }

Cwds == {"C:/work", "D:/home/dev"}

\* A path text is a sequence of tokens; ";" separates the templates of a
\* search path. package.path of a fresh interpreter: the built-in default,
\* or what LUA_PATH holds (it may be empty or end with a separator).
DefaultPaths ==
    { <<"./?.lua">>,
      <<"C:/lua/?.lua", ";", "./?.lua">>,
      <<"C:/lib/?.lua", ";">>,
      <<>> }

\* PathBuf::join: an absolute component replaces the base.
Join(base, c) ==
    IF c.abs THEN <<c.text>> ELSE base \o <<"/", c.text>>

\* Line 77: env::current_dir().unwrap().join(directory).join("?.lua")
PackagePath(c, dir) == Join(Join(<<c>>, dir), QuestionLua)

\* Lines 84-88: format!("{}{}", old, new)
FormatPath(old, new) == old \o new

\* Variant: the first argument after the program name is always taken
Directory_first(a) == IF Len(a) < 2 THEN Dot ELSE a[2]

\* Lines 53-57
Directory(a) == IF Len(a) # 2 THEN Dot ELSE a[2]

\* ------------------------------------------------------------ letterbox
\* An f32 is [m, e], standing for m * 2^e with 2^23 <= m < 2^24 (only
\* positive normal numbers occur). Results are rounded to nearest, ties to
\* even, as the hardware does.
VIRTUAL_WIDTH == 1280
VIRTUAL_HEIGHT == 720

RECURSIVE Normal(_, _)
Normal(m, e) == IF m < 2^23 THEN Normal(2 * m, e - 1) ELSE [m |-> m, e |-> e]

RECURSIVE Excess(_, _)
Excess(n, k) == IF n \div 2^k < 2^24 THEN k ELSE Excess(n, k + 1)

\* The f32 nearest to n * 2^e, for 0 < n < 2^31.
Round(n, e) ==
    IF n < 2^24 THEN Normal(n, e)
    ELSE LET k == Excess(n, 1)
             q == n \div 2^k
             r == n % 2^k
             half == 2^(k - 1)
             up == IF r > half \/ (r = half /\ q % 2 = 1) THEN 1 ELSE 0
         IN  IF q + up = 2^24 THEN [m |-> 2^23, e |-> e + k + 1]
             ELSE [m |-> q + up, e |-> e + k]

\* c = OddPart(c) * 2^TwoExp(c)
RECURSIVE OddPart(_)
OddPart(c) == IF c % 2 = 0 THEN OddPart(c \div 2) ELSE c

RECURSIVE TwoExp(_)
TwoExp(c) == IF c % 2 = 0 THEN 1 + TwoExp(c \div 2) ELSE 0

RECURSIVE Bits(_)
Bits(d) == IF d <= 1 THEN 0 ELSE 1 + Bits((d + 1) \div 2)

\* A constant as the operations use it: its odd factor, the power of two
\* and the bit length of the odd factor.
Factored(c) ==
    [odd |-> OddPart(c), two |-> TwoExp(c), bits |-> Bits(OddPart(c))]

VW == Factored(VIRTUAL_WIDTH)
VH == Factored(VIRTUAL_HEIGHT)

\* `n as f32` for a whole number 0 < n < 2^24
F32(n) == Normal(n, 0)

\* x / c in f32, for a constant c whose odd factor is below 2^7
F32Div(x, c) ==
    LET j == IF (x.m * 2^c.bits) \div c.odd < 2^24 THEN c.bits
             ELSE c.bits - 1
        n == x.m * 2^j
        q == n \div c.odd
        up == IF 2 * (n % c.odd) > c.odd THEN 1 ELSE 0
    IN  IF q + up = 2^24
        THEN [m |-> 2^23, e |-> x.e - c.two - j + 1]
        ELSE [m |-> q + up, e |-> x.e - c.two - j]

\* c * x in f32, same constants
F32Mul(c, x) == Round(c.odd * x.m, x.e + c.two)

F32Less(a, b) == a.e < b.e \/ (a.e = b.e /\ a.m < b.m)

\* f32::min
F32Min(a, b) == IF F32Less(b, a) THEN b ELSE a

\* Sign of (a - b) * 0.5 in f32: a difference of two floats is rounded
\* without changing its sign, and is zero only when they are equal.
HalfDiffSign(a, b) == IF F32Less(a, b) THEN -1 ELSE IF a = b THEN 0 ELSE 1

\* Variant: the scale is taken from the width alone
Scale_widthOnly(w, h) == F32Div(w, VW)

\* Lines 198-201
Scale(w, h) == F32Min(F32Div(w, VW), F32Div(h, VH))

NoBox == [drawn |-> FALSE]

\* window_conf(): the size the window is created with
DefaultWindow == <<960, 540>>

\* Sizes a resizable window is dragged to: every small one, the
\* 16:9 and 4:3 classics and a few in between.
MaxWindow == 8

WindowSizes ==
    ((1..MaxWindow) \X (1..MaxWindow))
    \cup {DefaultWindow, <<1280, 720>>, <<1920, 1080>>, <<1366, 768>>,
          <<800, 600>>, <<1024, 490>>, <<1024, 484>>, <<721, 1281>>}

\* ---------------------------------------------------------------- state
VARIABLES
    pc,             \* where main is: args, provision, bridge, check,
                    \* validate, format, exec, loop, panic
    args,           \* env::args(): the argument vector of the process
    cwd,            \* env::current_dir()
    defaultPath,    \* package.path as Lua::new() sets it up
    directory,      \* let directory
    luaPath,        \* package.path of the interpreter
    screen,         \* <<screen_width(), screen_height()>>
    box,            \* where the last frame drew the render texture
    tmp,            \* temp directory: tool path -> absent | blob | foreign
    writes,         \* tool path -> number of fs::write calls on it
    entries,        \* the script directory as WalkDir yields it
    lua,            \* interpreter: globals pesto, update and pesto.update
    error,          \* let mut error
    error_message,  \* let mut error_message
    stdout,         \* analyzer output captured as text
    analyzerRuns,   \* number of luacheck invocations
    walk,           \* index of the next WalkDir item
    fmtCount,       \* entry index -> number of lua-format invocations on it
    fmtStatus,      \* entry index -> exit status of its lua-format run
    mainReads,      \* number of reads of main.lua
    evalCount,      \* number of evaluations of the entry script
    evalResult,     \* none | ok | err: how that evaluation ended
    frame,          \* number of completed frames
    updateCalls,    \* number of calls of the update callback
    raisedAt,       \* frame in which update first raised, 0 if never
    last,           \* what the last completed frame did
    surface,        \* what the last frame drew on the virtual surface
    windowBg        \* colour the window was cleared to before compositing

vars == <<pc, args, cwd, defaultPath, directory, luaPath, screen, box, tmp, writes, entries, lua, error, error_message, stdout,
          analyzerRuns, walk, fmtCount, fmtStatus, mainReads, evalCount, evalResult,
          frame, updateCalls, raisedAt, last, surface, windowBg>>

Tools == {"luacheck.exe", "lua-format.exe"}

\* Lines 198-201 and 250-260: the scale of the frame, and where the render
\* texture is drawn in a window of screen[1] x screen[2] pixels: dest_size
\* and the signs of the two offsets.
Letterbox ==
    \E sw \in {F32(screen[1])}, sh \in {F32(screen[2])} :
    \E scale \in {Scale(sw, sh)} :
    \E w \in {F32Mul(VW, scale)}, h \in {F32Mul(VH, scale)} :
        box' = [drawn |-> TRUE, size |-> screen, scale |-> scale,
                w |-> w, h |-> h,
                x |-> HalfDiffSign(sw, w), y |-> HalfDiffSign(sh, h)]

NoLua == [made |-> FALSE, pesto |-> "unset", update |-> "absent",
          gupdate |-> FALSE]
NoFrame == [running |-> FALSE, looked |-> FALSE, called |-> FALSE,
            raised |-> FALSE, events |-> <<>>]
NoSurface == [bg |-> "none", label |-> FALSE, lines |-> <<>>]

\* The state before main has run, given the environment.
Start ==
    /\ pc = "args"
    /\ directory = NoDirectory
    /\ luaPath = <<>>
    /\ writes = [t \in Tools |-> 0]
    /\ lua = NoLua
    /\ error = FALSE
    /\ error_message = <<>>
    /\ stdout = <<>>
    /\ analyzerRuns = 0
    /\ walk = 1
    /\ fmtCount = [i \in DOMAIN entries |-> 0]
    /\ fmtStatus = [i \in DOMAIN entries |-> "none"]
    /\ mainReads = 0
    /\ evalCount = 0
    /\ evalResult = "none"
    /\ frame = 0
    /\ updateCalls = 0
    /\ raisedAt = 0
    /\ last = NoFrame
    /\ surface = NoSurface
    /\ windowBg = "none"
    /\ box = NoBox

\* Started as `resto game`: every temp directory and script directory.
Init ==
    /\ args = <<Prog, Game>>
    /\ cwd = "C:/work"
    /\ defaultPath = <<"C:/lua/?.lua", ";", "./?.lua">>
    /\ screen = DefaultWindow
    /\ tmp \in [Tools -> {"absent", "blob", "foreign"}]
    /\ entries \in Directories
    /\ Start

\* Every argument vector, working directory and initial search path, with
\* the tools in place and a directory that holds main.lua.
InitArgs ==
    /\ args \in ArgVectors
    /\ cwd \in Cwds
    /\ defaultPath \in DefaultPaths
    /\ screen = DefaultWindow
    /\ tmp = [t \in Tools |-> "blob"]
    /\ entries = <<Root, MainFile>>
    /\ Start

Panic == pc' = "panic"

envVars == <<args, cwd, defaultPath, screen>>

startupVars == <<entries, lua, error, error_message, stdout, analyzerRuns,
                 walk, fmtCount, fmtStatus, mainReads, evalCount, evalResult>>
loopVars == <<frame, updateCalls, raisedAt, last, surface, windowBg, box>>

\* ------------------------------------------------------------ arguments
\* Lines 51-57. env::args() panics on an argument that is not Unicode.
ParseArgs ==
    /\ pc = "args"
    /\ IF \E i \in DOMAIN args : ~args[i].utf
       THEN /\ Panic
            /\ UNCHANGED directory
       ELSE /\ directory' = Directory(args)
            /\ pc' = "provision"
    /\ UNCHANGED <<envVars, luaPath, tmp, writes, startupVars, loopVars>>

\* ---------------------------------------------------- tool provisioning
\* Variant: the blob is written on every start
NeedsWrite_always(t) == TRUE

\* if !path.exists() { fs::write(&path, BLOB).unwrap(); }
NeedsWrite(t) == tmp[t] = "absent"

\* Both tools, luacheck first; wrote[t] says whether fs::write succeeds. A
\* write that fails leaves no file or a truncated one (left[t]).
Provision ==
    /\ pc = "provision"
    /\ \E wrote \in [Tools -> BOOLEAN], left \in [Tools -> {"absent", "foreign"}] :
         LET c == NeedsWrite("luacheck.exe")
             cOk == ~c \/ wrote["luacheck.exe"]
             f == cOk /\ NeedsWrite("lua-format.exe")
             fOk == ~f \/ wrote["lua-format.exe"]
             After(t, tried, ok) ==
                 IF ~tried THEN tmp[t] ELSE IF ok THEN "blob" ELSE left[t]
         IN  /\ writes' = [writes EXCEPT
                    !["luacheck.exe"] = @ + (IF c THEN 1 ELSE 0),
                    !["lua-format.exe"] = @ + (IF f THEN 1 ELSE 0)]
             /\ tmp' = [tmp EXCEPT
                    !["luacheck.exe"] = After("luacheck.exe", c, cOk),
                    !["lua-format.exe"] = After("lua-format.exe", f, fOk)]
             /\ pc' = IF cOk /\ fOk THEN "bridge" ELSE "panic"
    /\ UNCHANGED <<envVars, directory, luaPath, startupVars, loopVars>>

\* ------------------------------------------------------------ API bridge
\* Variant: nothing of the interpreter is set up before the existence check
Bridge_deferred ==
    /\ pc = "bridge"
    /\ pc' = "check"
    /\ UNCHANGED <<envVars, directory, luaPath, tmp, writes, startupVars,
                   loopVars>>

\* Lua::new(), package.path, the pesto table with graphics and the bundled
\* libraries, bound to the global `pesto`.
Bridge ==
    /\ pc = "bridge"
    /\ lua' = [made |-> TRUE, pesto |-> "table", update |-> "absent",
               gupdate |-> FALSE]
    /\ luaPath' = FormatPath(defaultPath, PackagePath(cwd, directory))
    /\ pc' = "check"
    /\ UNCHANGED <<envVars, directory, tmp, writes, entries, error, error_message, stdout,
                   analyzerRuns, walk, fmtCount, fmtStatus, mainReads, evalCount,
                   evalResult, loopVars>>

\* ------------------------------------------------------ entry-script check
\* Variant: the existence check is left out
MainLuaMissing_unchecked(dir) == FALSE

\* Line 133: !main_lua_path.exists()
MainLuaMissing(dir) == ~Exists(dir, "main.lua")

CheckMain ==
    /\ pc = "check"
    /\ IF MainLuaMissing(entries)
       THEN /\ error' = TRUE
            /\ error_message' = Lit("main.lua not found.")
       ELSE UNCHANGED <<error, error_message>>
    /\ pc' = "validate"
    /\ UNCHANGED <<envVars, directory, luaPath, tmp, writes, entries, lua, stdout, analyzerRuns, walk,
                   fmtCount, fmtStatus, mainReads, evalCount, evalResult, loopVars>>

\* ------------------------------------------------------------- analyzer
\* Lines 149-159: the first occurrence of the summary pattern decides.
\* "panic" when a count does not parse as u32, "fail" when a count is
\* positive, "pass" otherwise and when the pattern does not occur.
Validate_errorsOnly(text) ==
    \* Variant: warnings do not fail validation
    LET caps == Captures(text) IN
    IF caps = <<>> THEN "pass"
    ELSE LET warnings == ParseU32(caps[1].w)
             errors == ParseU32(caps[1].e)
         IN  IF ~warnings.ok \/ ~errors.ok THEN "panic"
             ELSE IF errors.pos THEN "fail"
             ELSE "pass"

Validate_patternRequired(text) ==
    \* Variant: output without the summary pattern fails validation
    LET caps == Captures(text) IN
    IF caps = <<>> THEN "fail"
    ELSE LET warnings == ParseU32(caps[1].w)
             errors == ParseU32(caps[1].e)
         IN  IF ~warnings.ok \/ ~errors.ok THEN "panic"
             ELSE IF errors.pos \/ warnings.pos THEN "fail"
             ELSE "pass"

Validate(text) ==
    LET caps == Captures(text) IN
    IF caps = <<>> THEN "pass"
    ELSE LET warnings == ParseU32(caps[1].w)
             errors == ParseU32(caps[1].e)
         IN  IF ~warnings.ok \/ ~errors.ok THEN "panic"
             ELSE IF errors.pos \/ warnings.pos THEN "fail"
             ELSE "pass"

\* Where main goes after the analyzer block: the WalkDir loop follows it
\* inside the same `if !error` block, whatever the analyzer reported.
AfterAnalyze(verdict) == "format"

\* Command::new(luacheck_path).arg(directory)....output().unwrap()
Analyze ==
    /\ pc = "validate"
    /\ ~error
    /\ \E spawned \in BOOLEAN, bytes \in AnalyzerOutputs :
         IF ~spawned
         THEN /\ Panic
              /\ UNCHANGED <<stdout, analyzerRuns, error, error_message, walk>>
         ELSE LET text == FromUtf8Lossy(bytes)
                  verdict == Validate(text)
              IN  /\ analyzerRuns' = analyzerRuns + 1
                  /\ stdout' = text
                  /\ IF verdict = "panic"
                     THEN /\ Panic
                          /\ UNCHANGED <<error, error_message, walk>>
                     ELSE /\ IF verdict = "fail"
                             THEN /\ error' = TRUE
                                  /\ error_message' = text
                             ELSE UNCHANGED <<error, error_message>>
                          /\ walk' = 1
                          /\ pc' = AfterAnalyze(verdict)
    /\ UNCHANGED <<envVars, directory, luaPath, tmp, writes, entries, lua, fmtCount, fmtStatus, mainReads, evalCount,
                   evalResult, loopVars>>

\* `if !error { ... }` at line 138 when main.lua is missing
SkipValidate ==
    /\ pc = "validate"
    /\ error
    /\ pc' = "exec"
    /\ UNCHANGED <<envVars, directory, luaPath, tmp, writes, startupVars, loopVars>>

\* ------------------------------------------------------------ formatter
FormatDecision_anyExtension(e) ==
    \* Variant: every regular file that has an extension is formatted
    IF ~e.ok THEN "skip"
    ELSE IF ~e.isFile THEN "skip"
    ELSE IF e.ext = "none" THEN "panic"
    ELSE "format"

\* Line 166: path.is_file() && path.extension().unwrap().to_str() == Some("lua")
FormatDecision(e) ==
    IF ~e.ok THEN "skip"
    ELSE IF ~e.isFile THEN "skip"
    ELSE IF e.ext = "none" THEN "panic"
    ELSE IF e.ext = "lua" THEN "format"
    ELSE "skip"

\* Variant: a failing formatter run puts the host in the error state
FormatOutcome_checked(status) ==
    IF status = "failure" THEN "fail" ELSE "continue"

\* Lines 167-171: .status().unwrap() unwraps the spawn result only; the
\* ExitStatus it yields is dropped.
FormatOutcome(status) == "continue"

\* One iteration of `for entry in WalkDir::new(directory)`.
FormatEntry ==
    /\ pc = "format"
    /\ walk <= Len(entries)
    /\ LET d == FormatDecision(entries[walk]) IN
       \/ /\ d = "skip"
          /\ walk' = walk + 1
          /\ UNCHANGED <<pc, fmtCount, fmtStatus, error, error_message>>
       \/ /\ d = "panic"
          /\ Panic
          /\ UNCHANGED <<walk, fmtCount, fmtStatus, error, error_message>>
       \/ /\ d = "format"
          /\ \E spawned \in BOOLEAN, status \in {"success", "failure"} :
               IF spawned
               THEN /\ fmtCount' = [fmtCount EXCEPT ![walk] = @ + 1]
                    /\ fmtStatus' = [fmtStatus EXCEPT ![walk] = status]
                    /\ walk' = walk + 1
                    /\ IF FormatOutcome(status) = "fail"
                       THEN /\ error' = TRUE
                            /\ error_message' = Lit("Formatting failed.")
                       ELSE UNCHANGED <<error, error_message>>
                    /\ UNCHANGED pc
               ELSE /\ Panic
                    /\ UNCHANGED <<walk, fmtCount, fmtStatus, error,
                                   error_message>>
    /\ UNCHANGED <<envVars, directory, luaPath, tmp, writes, entries, lua, stdout, analyzerRuns, mainReads,
                   evalCount, evalResult, loopVars>>

\* The iterator is exhausted.
FormatDone ==
    /\ pc = "format"
    /\ walk > Len(entries)
    /\ pc' = "exec"
    /\ UNCHANGED <<envVars, directory, luaPath, tmp, writes, startupVars, loopVars>>

\* ------------------------------------------------------------ interpreter
\* What script code can leave behind: the global `pesto` (still a table or
\* not), the value under its key "update", and a global function `update`.
LuaStates ==
    { l \in [made : {TRUE}, pesto : {"table", "nontable"},
             update : {"absent", "function", "nonfunction"},
             gupdate : BOOLEAN] :
        l.pesto = "nontable" => l.update = "absent" }

\* err.to_string() of an mlua error
LuaErrors ==
    { <<T("syntax error: main.lua:3: unexpected symbol")>>,
      <<T("runtime error: main.lua:5: attempt to index a nil value"),
        T("stack traceback:")>> }

\* Variant: the entry script is evaluated whatever came before
ShouldExec_always == TRUE

\* Lines 177-185
ShouldExec == ~error

Exec ==
    /\ pc = "exec"
    /\ ShouldExec
    /\ IF ~Readable(entries, "main.lua")
       THEN /\ Panic
            /\ UNCHANGED <<lua, error, error_message, mainReads, evalCount,
                           evalResult>>
       ELSE /\ mainReads' = mainReads + 1
            /\ evalCount' = evalCount + 1
            /\ lua' \in LuaStates
            /\ \E res \in {<<>>} \cup LuaErrors :
                 IF res = <<>>
                 THEN /\ evalResult' = "ok"
                      /\ UNCHANGED <<error, error_message>>
                 ELSE /\ evalResult' = "err"
                      /\ error' = TRUE
                      /\ error_message' = res
            /\ pc' = "loop"
    /\ UNCHANGED <<envVars, directory, luaPath, tmp, writes, entries, stdout, analyzerRuns, walk, fmtCount, fmtStatus,
                   loopVars>>

SkipExec ==
    /\ pc = "exec"
    /\ ~ShouldExec
    /\ pc' = "loop"
    /\ UNCHANGED <<envVars, directory, luaPath, tmp, writes, startupVars, loopVars>>

\* ------------------------------------------------------------- main loop
\* Variant: the callback is looked up among the globals
LookupUpdate_global(l) == IF l.gupdate THEN "found" ELSE "missing"

\* Variant: any value under the key is taken for the callback
LookupUpdate_anyValue(l) == IF l.update # "absent" THEN "found" ELSE "missing"

\* Lines 225-227: pesto_table.get::<_, LuaFunction>("update")
LookupUpdate(l) == IF l.update = "function" THEN "found" ELSE "missing"

\* Variant: the frame never takes the overlay branch
ShowOverlay_never == FALSE

\* Line 210: `if error` picks the overlay branch of the frame
ShowOverlay == error

\* Variant: only the first line of the message is drawn
OverlayLines_firstOnly(msg) == IF msg = <<>> THEN <<>> ELSE <<Head(msg)>>

\* Lines 215-221: every line of the message is drawn, none wrapped or cut
OverlayLines(msg) == msg

\* Variant: the surface is composited before the callback is called
RunningFrame_lateCall(found) ==
    IF found THEN <<"lookup", "composite", "call">>
    ELSE <<"lookup", "composite">>

\* Lines 225-260: what a frame of the else branch does with the script and
\* the window, in order: pesto_table.get("update"), update_function.call,
\* draw_texture_ex.
RunningFrame(found) ==
    IF found THEN <<"lookup", "call", "composite">>
    ELSE <<"lookup", "composite">>

\* Lines 210-221: the error overlay
FrameError ==
    /\ pc = "loop"
    /\ frame < MaxFrames
    /\ ShowOverlay
    /\ surface' = [bg |-> "SKYBLUE", label |-> TRUE,
                   lines |-> OverlayLines(error_message)]
    /\ windowBg' = "SKYBLUE"
    /\ Letterbox
    /\ last' = [NoFrame EXCEPT !.events = <<"overlay", "composite">>]
    /\ frame' = frame + 1
    /\ UNCHANGED <<pc, envVars, directory, luaPath, tmp, writes, startupVars, updateCalls, raisedAt>>

\* Lines 222-239, then 241-262
FrameRunning ==
    /\ pc = "loop"
    /\ frame < MaxFrames
    /\ ~ShowOverlay
    /\ IF lua.pesto # "table"
       THEN /\ Panic
            /\ UNCHANGED <<lua, error, error_message, loopVars>>
       ELSE /\ surface' = [bg |-> "BLACK", label |-> FALSE, lines |-> <<>>]
            /\ Letterbox
            /\ frame' = frame + 1
            /\ UNCHANGED pc
            /\ IF LookupUpdate(lua) = "found"
               THEN /\ updateCalls' = updateCalls + 1
                    /\ lua' \in LuaStates
                    /\ \E res \in {<<>>} \cup LuaErrors :
                         IF res = <<>>
                         THEN /\ UNCHANGED <<error, error_message, raisedAt>>
                              /\ windowBg' = "LIME"
                              /\ last' = [running |-> TRUE, looked |-> TRUE,
                                          called |-> TRUE, raised |-> FALSE,
                                          events |-> RunningFrame(TRUE)]
                         ELSE /\ error' = TRUE
                              /\ error_message' = res
                              /\ raisedAt' = frame + 1
                              /\ windowBg' = "SKYBLUE"
                              /\ last' = [running |-> TRUE, looked |-> TRUE,
                                          called |-> TRUE, raised |-> TRUE,
                                          events |-> RunningFrame(TRUE)]
               ELSE /\ error' = TRUE
                    /\ error_message' = Lit("Update function not found.")
                    /\ windowBg' = "SKYBLUE"
                    /\ last' = [running |-> TRUE, looked |-> TRUE,
                                called |-> FALSE, raised |-> FALSE,
                                events |-> RunningFrame(FALSE)]
                    /\ UNCHANGED <<lua, updateCalls, raisedAt>>
    /\ UNCHANGED <<envVars, directory, luaPath, tmp, writes, entries, stdout, analyzerRuns, walk, fmtCount, fmtStatus,
                   mainReads, evalCount, evalResult>>

Next ==
    \/ ParseArgs
    \/ Provision
    \/ Bridge
    \/ CheckMain
    \/ Analyze
    \/ SkipValidate
    \/ FormatEntry
    \/ FormatDone
    \/ Exec
    \/ SkipExec
    \/ FrameError
    \/ FrameRunning

Spec == Init /\ [][Next]_vars

\* The start of main up to the API bridge, for every environment.
NextArgs ==
    \/ ParseArgs
    \/ Provision
    \/ Bridge

SpecArgs == InitArgs /\ [][NextArgs]_vars

\* The window is resized between two frames.
Resize ==
    /\ pc = "loop"
    /\ screen' \in WindowSizes \ {screen}
    /\ UNCHANGED <<pc, args, cwd, defaultPath, directory, luaPath, tmp,
                   writes, startupVars, loopVars>>

\* A directory without main.lua, in a window of any size that is resized
\* at will: the startup and the frames, which draw the overlay.
InitLetterbox ==
    /\ args = <<Prog, Game>>
    /\ cwd = "C:/work"
    /\ defaultPath = <<"./?.lua">>
    /\ screen \in WindowSizes
    /\ tmp = [t \in Tools |-> "blob"]
    /\ entries = <<Root>>
    /\ Start

NextLetterbox ==
    \/ ParseArgs
    \/ Provision
    \/ Bridge
    \/ CheckMain
    \/ SkipValidate
    \/ SkipExec
    \/ FrameError
    \/ Resize

SpecLetterbox == InitLetterbox /\ [][NextLetterbox]_vars

\* ------------------------------------------------------------ run states
\* The run state of the specification, read off the flag and the position.
RunState ==
    IF pc = "panic" THEN "Aborted"
    ELSE IF error THEN "Error"
    ELSE IF pc \in {"args", "provision", "bridge", "check"}
        THEN "Uninitialized"
    ELSE IF pc \in {"validate", "format"} THEN "Validating"
    ELSE IF pc = "exec" THEN "Executing"
    ELSE "Running"

Positive(ds) == \E i \in 1..Len(ds) : ds[i] # 0
InU32(ds) == ParseU32(ds).ok

\* The analyzer ran and its summary (the first occurrence of the pattern,
\* with counts that are 32-bit unsigned numbers) reports a warning or error.
Dirty ==
    /\ analyzerRuns = 1
    /\ Captures(stdout) # <<>>
    /\ LET c == Captures(stdout)[1] IN
         /\ InU32(c.w) /\ InU32(c.e)
         /\ Positive(c.w) \/ Positive(c.e)

\* The analyzer ran and its summary reports 0 warnings / 0 errors.
Clean ==
    /\ analyzerRuns = 1
    /\ Captures(stdout) # <<>>
    /\ LET c == Captures(stdout)[1] IN ~Positive(c.w) /\ ~Positive(c.e)

\* The analyzer ran and the summary pattern does not occur in its output.
NoPattern == analyzerRuns = 1 /\ Captures(stdout) = <<>>

NeverFormatted == \A i \in DOMAIN entries : fmtCount[i] = 0
StartupOver == pc = "loop"

\* ---------------------------------------------------------------- claims
\* C1: when main.lua does not exist in the script directory, the analyzer
\* and the formatter are never invoked and the entry script is never read or
\* evaluated; once the check is done the state is Error with the message
\* "main.lua not found.", and every frame draws that message, whatever else
\* the directory contains.
C1_MissingMain ==
    ~Exists(entries, "main.lua") =>
        /\ analyzerRuns = 0
        /\ NeverFormatted
        /\ mainReads = 0 /\ evalCount = 0 /\ updateCalls = 0
        /\ pc \in {"validate", "exec", "loop"} =>
              error /\ error_message = Lit("main.lua not found.")
        /\ frame >= 1 =>
              surface.label /\ surface.lines = Lit("main.lua not found.")

C1_Witness ==
    /\ ~Exists(entries, "main.lua")
    /\ Len(entries) > 1
    /\ StartupOver /\ frame >= 1
    /\ RunState = "Error"

C3_NoFormatAfterDirty == Dirty => NeverFormatted

\* C4: once the error flag is set it is never cleared and the message it
\* carries never changes.
C4_ErrorTerminal ==
    [][error => error' /\ error_message' = error_message]_vars

C4_Witness ==
    /\ raisedAt >= 1
    /\ frame > raisedAt
    /\ error /\ error_message \in LuaErrors

\* C5: in the Error state no script code runs: the entry script is neither
\* read nor evaluated, no frame looks up or calls update and the interpreter
\* state stays as it is, while the loop goes on: a further frame is always
\* possible, and each one draws the overlay and composites it.
C5_NoScriptInError ==
    /\ [](error /\ pc = "loop" /\ frame < MaxFrames => ENABLED FrameError)
    /\ [][error =>
            /\ mainReads' = mainReads /\ evalCount' = evalCount
            /\ updateCalls' = updateCalls /\ lua' = lua
            /\ frame' # frame =>
                  /\ frame' = frame + 1
                  /\ ~last'.looked /\ ~last'.called
                  /\ surface'.label /\ surface'.bg = "SKYBLUE"
                  /\ windowBg' = "SKYBLUE"]_vars

C5_Witness ==
    /\ error /\ evalCount = 0
    /\ frame >= 2
    /\ ~last.looked /\ surface.label

\* C6 as stated: with main.lua present, a clean analyzer summary, a
\* successful evaluation and a global function update whose calls never
\* raise, the state is Running in every frame.
C6_GlobalUpdateRuns ==
    (Clean /\ evalResult = "ok" /\ lua.gupdate /\ raisedAt = 0 /\ StartupOver)
        => RunState = "Running"

Chain ==
    { <<"Uninitialized", "Validating">>, <<"Validating", "Executing">>,
      <<"Executing", "Running">> }

\* C6 amended: the callback is the function stored under the key "update" of
\* the global table pesto.  The run state only advances along
\* Uninitialized -> Validating -> Executing -> Running (or leaves the chain
\* for Error or an abort); after a clean summary and a successful evaluation
\* it is Running when the loop starts; and every frame that starts Running
\* with a function under pesto.update calls it and, if the call does not
\* raise, ends Running.
C6_PestoUpdateRuns ==
    /\ [](Clean /\ evalResult = "ok" /\ StartupOver /\ frame = 0
            => RunState = "Running")
    /\ [][RunState' # RunState =>
            \/ <<RunState, RunState'>> \in Chain
            \/ RunState' \in {"Error", "Aborted"}]_vars
    /\ [][(RunState = "Running" /\ lua.pesto = "table"
             /\ lua.update = "function" /\ frame' = frame + 1)
            => /\ last'.called
               /\ ~last'.raised => RunState' = "Running"]_vars

C6_Witness ==
    /\ Clean /\ evalResult = "ok"
    /\ frame >= 2 /\ updateCalls = frame
    /\ ~lua.gupdate /\ lua.update = "function"
    /\ RunState = "Running" /\ windowBg = "LIME"

\* C7: a frame that starts Running and finds, in the table pesto, no function
\* under "update" (nothing, or a value that is not a function) ends in Error
\* with the message "Update function not found." and calls nothing; this is
\* so for the first frame after a successful evaluation and for any later one.
C7_MissingUpdate ==
    [][(pc = "loop" /\ ~error /\ lua.pesto = "table"
          /\ lua.update # "function" /\ frame' = frame + 1)
         => /\ error'
            /\ error_message' = Lit("Update function not found.")
            /\ last'.looked /\ ~last'.called
            /\ updateCalls' = updateCalls]_vars

C7_Witness ==
    /\ evalResult = "ok" /\ frame = 1
    /\ lua.update = "nonfunction"
    /\ error /\ error_message = Lit("Update function not found.")
    /\ updateCalls = 0

\* C8: if update first raises in frame k, it was called once in each of the
\* frames 1..k (so frames 1..k-1 ended Running), frame k ends in Error with
\* the interpreter's error text, and every later frame draws only the overlay
\* (the ERROR label and all lines of that text) and does not look up or call
\* update.
C8_RaiseInFrameK ==
    raisedAt >= 1 =>
        /\ updateCalls = raisedAt
        /\ error /\ error_message \in LuaErrors
        /\ frame >= raisedAt
        /\ frame = raisedAt => last.running /\ last.called /\ last.raised
        /\ frame > raisedAt =>
             /\ surface = [bg |-> "SKYBLUE", label |-> TRUE,
                           lines |-> error_message]
             /\ ~last.looked /\ ~last.called

C8_Witness ==
    /\ raisedAt >= 2
    /\ frame > raisedAt
    /\ Len(error_message) = 2
    /\ surface.lines = error_message

RegularLua(e) == e.ok /\ e.isFile /\ e.ext = "lua"
Walked(i) == i < walk

\* C9: after a summary of 0 warnings / 0 errors validation passes (the flag
\* is unset until the entry script is evaluated); the formatter is run once
\* on each regular *.lua file the traversal has passed, on nothing else and
\* one entry at a time in traversal order; the analyzer has run exactly once
\* before any formatter run; and main.lua is read only after the traversal
\* is exhausted.
C9_CleanFormatsAll ==
    /\ analyzerRuns <= 1
    /\ ~NeverFormatted => analyzerRuns = 1
    /\ Clean =>
        /\ evalCount = 0 => ~error
        /\ \A i \in DOMAIN entries :
             fmtCount[i] = IF Walked(i) /\ RegularLua(entries[i]) THEN 1 ELSE 0
        /\ mainReads >= 1 => walk = Len(entries) + 1

C9_Witness ==
    /\ Clean /\ mainReads = 1 /\ StartupOver
    /\ \E i, j \in DOMAIN entries :
         /\ i # j
         /\ fmtCount[i] = 1 /\ fmtCount[j] = 1

\* C10: when the summary pattern does not occur in the analyzer output (empty
\* output included), validation passes: the flag is unset until the entry
\* script is evaluated, the formatting pass runs over the directory, and
\* startup ends only after main.lua was read and evaluated.
C10_NoPatternPasses ==
    NoPattern =>
        /\ evalCount = 0 => ~error
        /\ pc \in {"exec", "loop"} =>
             \A i \in DOMAIN entries :
                 RegularLua(entries[i]) => fmtCount[i] = 1
        /\ StartupOver => mainReads = 1 /\ evalCount = 1

C10_Witness ==
    /\ NoPattern /\ stdout = <<>>
    /\ ~NeverFormatted
    /\ evalCount = 1 /\ frame >= 1
    /\ RunState = "Running"

\* C11: the formatter's exit status never gates execution. A formatter run
\* that reports failure leaves the pass at the next directory entry with the
\* error flag and message as they were, and when the analyzer raised
\* nothing the startup ends with the flag unset and the entry script
\* evaluated once, as after a pass in which every run succeeded.
FormatterFailed == \E i \in DOMAIN entries : fmtStatus[i] = "failure"

C11_FormatNeverGates ==
    /\ [][(/\ pc = "format"
           /\ walk \in DOMAIN entries
           /\ fmtStatus'[walk] = "failure")
          => /\ pc' = "format"
             /\ walk' = walk + 1
             /\ error' = error
             /\ error_message' = error_message]_vars
    /\ [](FormatterFailed /\ (Clean \/ NoPattern) =>
            /\ pc \in {"format", "exec"} => ~error
            /\ StartupOver => evalCount = 1 /\ mainReads = 1)

C11_Witness ==
    /\ FormatterFailed
    /\ Clean
    /\ evalCount = 1 /\ evalResult = "ok"
    /\ ~error
    /\ frame >= 1 /\ last.called

\* C12: nothing the entry script does can abort the host. Once the entry
\* script has been evaluated (so it passed validation), whatever it did to
\* the interpreter state then or inside update, the host is never aborted:
\* every frame ends in Running or in Error.
C12_NoHostAbort == evalCount = 1 => RunState # "Aborted"

\* C13: tool provisioning is idempotent. A step writes a tool's blob at most
\* once and only when no file exists at its path; a file that exists,
\* whatever its content, is neither written nor changed. After a
\* provisioning that completed both tool files exist, so the provisioning
\* of a second run on the same machine writes nothing.
Provisioned == pc \notin {"args", "provision", "panic"}

C13_ProvisionIdempotent ==
    /\ [][\A t \in Tools :
            /\ writes'[t] <= writes[t] + 1
            /\ writes'[t] > writes[t] => tmp[t] = "absent"
            /\ tmp[t] # "absent" => tmp'[t] = tmp[t] /\ writes'[t] = writes[t]
         ]_vars
    /\ [](Provisioned =>
            \A t \in Tools : tmp[t] # "absent" /\ ~NeedsWrite(t) /\ writes[t] <= 1)

C13_Witness ==
    /\ pc = "bridge"
    /\ tmp["luacheck.exe"] = "foreign" /\ writes["luacheck.exe"] = 0
    /\ tmp["lua-format.exe"] = "blob" /\ writes["lua-format.exe"] = 1

\* C14: the script root is the positional argument exactly when one
\* positional argument is given (arguments being Unicode text). With none,
\* or with two or more, the script root is the current directory "." and
\* the arguments are ignored: argument handling completes with no error
\* flagged.
Positionals == IF args = <<>> THEN <<>> ELSE Tail(args)
AllUnicode == \A i \in DOMAIN args : args[i].utf
ArgsHandled == pc # "args"

C14_ScriptRoot ==
    ArgsHandled /\ AllUnicode =>
        /\ pc # "panic"
        /\ ~error /\ error_message = <<>>
        /\ Len(Positionals) = 1 => directory = Positionals[1]
        /\ Len(Positionals) # 1 => directory = Dot
        /\ (directory # Dot) <=> (Len(Positionals) = 1 /\ Positionals[1] # Dot)

C14_Witness ==
    /\ pc = "check"
    /\ Len(Positionals) = 2
    /\ Positionals[1] = Game
    /\ directory = Dot
    /\ luaPath = defaultPath \o <<cwd, "/", ".", "/", "?.lua">>

\* C15: a directory that holds regular files without an extension
\* ('Makefile', '.gitignore') does not stop the formatting pass: the pass
\* never aborts at such a file, it skips it and goes on to Executing.
AtExtensionless ==
    /\ analyzerRuns = 1
    /\ walk \in DOMAIN entries
    /\ entries[walk].ok /\ entries[walk].isFile /\ entries[walk].ext = "none"

C15_ExtensionlessSkipped == AtExtensionless => RunState # "Aborted"

\* C16 (as claimed): when main.lua is absent, the existence check and the
\* transition to Error precede every piece of interpreter work, so while
\* the error is not yet flagged no interpreter has been constructed and the
\* search path has not been modified.
InterpreterWorkDone == lua.made \/ luaPath # <<>>

C16_CheckBeforeInterpreter ==
    MainLuaMissing(entries) /\ InterpreterWorkDone => error

\* C16 (amended): when main.lua is absent, the interpreter is constructed,
\* its search path extended and the pesto table with the bundled libraries
\* bound before the existence check runs; the check and the transition to
\* Error precede the analyzer, the formatter and every read or evaluation
\* of the entry script, none of which ever happens.
C16_CheckAfterBridge ==
    MainLuaMissing(entries) =>
        /\ pc = "check" =>
              /\ ~error
              /\ lua.made /\ lua.pesto = "table"
              /\ luaPath = FormatPath(defaultPath, PackagePath(cwd, directory))
        /\ error => InterpreterWorkDone /\ pc \notin {"args", "provision",
                                                      "bridge", "check"}
        /\ pc \in {"validate", "format", "exec", "loop"} => error
        /\ analyzerRuns = 0 /\ NeverFormatted
        /\ mainReads = 0 /\ evalCount = 0 /\ evalResult = "none"

C16_Witness ==
    /\ MainLuaMissing(entries)
    /\ pc = "validate"
    /\ error /\ error_message = Lit("main.lua not found.")
    /\ lua.made /\ luaPath # <<>>
    /\ evalCount = 0

\* The templates of a search path: the non-empty pieces between its ";"
\* separators, in order, as the module searcher tries them.
RECURSIVE Split(_, _, _)
Split(p, cur, acc) ==
    IF p = <<>> THEN (IF cur = <<>> THEN acc ELSE Append(acc, cur))
    ELSE IF Head(p) = ";"
         THEN Split(Tail(p), <<>>, IF cur = <<>> THEN acc ELSE Append(acc, cur))
         ELSE Split(Tail(p), Append(cur, Head(p)), acc)

Templates(p) == Split(p, <<>>, <<>>)

\* C17: after the API bridge is set up, package.path consists of every
\* template it had before, each unchanged, followed by one further,
\* separate template <cwd>/<script dir>/?.lua, so that a module directly
\* under the script directory is found through that template.
C17_PathAppended ==
    pc = "check" =>
        Templates(luaPath) =
            Append(Templates(defaultPath), PackagePath(cwd, directory))

\* The window size of the last frame as f32, and its neighbours one unit
\* in the last place above and below.
BoxW == F32(box.size[1])
BoxH == F32(box.size[2])
Above(x) == Round(x.m + 1, x.e)
Below(x) ==
    IF x.m > 2^23 THEN [m |-> x.m - 1, e |-> x.e]
    ELSE [m |-> 2^24 - 1, e |-> x.e - 1]
F32Leq(a, b) == ~F32Less(b, a)
WidthLimited ==
    F32Leq(F32Div(BoxW, VW), F32Div(BoxH, VH))
HeightLimited ==
    F32Leq(F32Div(BoxH, VH), F32Div(BoxW, VW))

\* C18 (as claimed): in every frame the composited surface never exceeds
\* the window in either dimension, equals the window in at least one
\* dimension, and its offset is non-negative in both axes.
C18_LetterboxExact ==
    box.drawn =>
        /\ F32Leq(box.w, BoxW) /\ F32Leq(box.h, BoxH)
        /\ box.w = BoxW \/ box.h = BoxH
        /\ box.x >= 0 /\ box.y >= 0

\* C18 (amended): for a window of W x H whole pixels the surface is drawn
\* with size (1280*scale, 720*scale), scale = min(W/1280, H/720), all in
\* f32. Its width never exceeds W and is W when the width limits the
\* scale, and the x offset is non-negative. Its height is within one unit
\* in the last place of H when the height limits the scale and never more
\* than one such unit above H; the y offset is negative only then.
C18_LetterboxRounded ==
    box.drawn =>
        /\ box.scale = (IF WidthLimited THEN F32Div(BoxW, VW)
                        ELSE F32Div(BoxH, VH))
        /\ box.w = F32Mul(VW, box.scale)
        /\ box.h = F32Mul(VH, box.scale)
        /\ F32Leq(box.w, BoxW) /\ box.x >= 0
        /\ WidthLimited => box.w = BoxW /\ box.x = 0
        /\ F32Leq(box.h, Above(BoxH))
        /\ HeightLimited => F32Leq(Below(BoxH), box.h)
        /\ box.y < 0 <=> box.h = Above(BoxH)

C18_Witness ==
    /\ box.drawn
    /\ box.size = <<1024, 490>>
    /\ HeightLimited /\ ~WidthLimited
    /\ box.h = Above(BoxH)
    /\ box.y = -1 /\ box.x = 1

\* The five steps that may set the error flag.
FromMissingMain ==
    /\ pc = "check" /\ MainLuaMissing(entries)
    /\ error_message' = Lit("main.lua not found.")
FromAnalyzer ==
    /\ pc = "validate" /\ analyzerRuns' = analyzerRuns + 1
    /\ Validate(stdout') = "fail" /\ error_message' = stdout'
FromEvaluation ==
    /\ pc = "exec" /\ evalCount' = evalCount + 1 /\ evalResult' = "err"
    /\ error_message' \in LuaErrors
FromMissingUpdate ==
    /\ pc = "loop" /\ frame' = frame + 1
    /\ last'.looked /\ ~last'.called
    /\ error_message' = Lit("Update function not found.")
FromUpdateFailure ==
    /\ pc = "loop" /\ frame' = frame + 1
    /\ last'.called /\ last'.raised
    /\ error_message' \in LuaErrors

\* C19: the error message is non-empty only if the error flag is set; the
\* message is assigned only in a step that sets the flag; and every step
\* that sets the flag is exactly one of the five sources: missing
\* main.lua, analyzer diagnostics, failed evaluation of the entry script,
\* missing update callback, failure inside update.
C19_FlagAndMessage ==
    /\ [](~error => error_message = <<>>)
    /\ [][error_message' # error_message => ~error /\ error']_vars
    /\ [][~error /\ error' =>
            /\ error_message' # <<>>
            /\ Cardinality({ i \in 1..5 :
                   \/ i = 1 /\ FromMissingMain
                   \/ i = 2 /\ FromAnalyzer
                   \/ i = 3 /\ FromEvaluation
                   \/ i = 4 /\ FromMissingUpdate
                   \/ i = 5 /\ FromUpdateFailure }) = 1]_vars

C19_Witness ==
    /\ error
    /\ evalResult = "err"
    /\ error_message \in LuaErrors
    /\ surface.lines = error_message
    /\ updateCalls = 0
    /\ frame = 2

\* The callback a frame finds: a function stored under pesto.update.
CallbackPresent == lua.pesto = "table" /\ lua.update = "function"
Occurrences(seq, x) == Cardinality({ i \in DOMAIN seq : seq[i] = x })
Before(seq, x, y) ==
    \E i, j \in DOMAIN seq : i < j /\ seq[i] = x /\ seq[j] = y

\* C20: the entry script is evaluated at most once, and only before the
\* first frame. Every frame that begins in Running looks the update
\* callback up in the interpreter state of that moment and, when it is
\* present, calls it exactly once, after the lookup and before the surface
\* is composited; when it is absent nothing is called.
C20_OncePerStep ==
    /\ [](evalCount <= 1)
    /\ [][evalCount' # evalCount =>
            frame = 0 /\ frame' = 0 /\ pc = "exec" /\ evalCount' = 1]_vars
    /\ [][(RunState = "Running" /\ pc = "loop" /\ frame' = frame + 1) =>
            /\ last'.running /\ last'.looked
            /\ Occurrences(last'.events, "lookup") = 1
            /\ Occurrences(last'.events, "composite") = 1
            /\ IF CallbackPresent
               THEN /\ updateCalls' = updateCalls + 1
                    /\ last'.called
                    /\ Occurrences(last'.events, "call") = 1
                    /\ Before(last'.events, "lookup", "call")
                    /\ Before(last'.events, "call", "composite")
               ELSE /\ updateCalls' = updateCalls
                    /\ ~last'.called
                    /\ Occurrences(last'.events, "call") = 0]_vars

C20_Witness ==
    /\ frame = 3 /\ updateCalls = 2
    /\ evalCount = 1 /\ evalResult = "ok"
    /\ last.running /\ last.looked /\ ~last.called
    /\ last.events = <<"lookup", "composite">>
    /\ error_message = Lit("Update function not found.")
====
